---- MODULE Spec2Model ----
(***************************************************************************)
(* Experiment steps of PyBaMM: the step descriptor _Step and its parsing   *)
(* helpers (src/pybamm/experiment/_steps_util.py).                         *)
(*                                                                         *)
(* Python values are tagged records: None, int, float (an exact rational   *)
(* n/d), str (a TLA+ string, read character by character with SubSeq),     *)
(* list, ndarray, datetime and Interpolant.  A call either returns         *)
(* (ok = TRUE, val) or raises (ok = FALSE, exc, msg, examples, arg).       *)
(***************************************************************************)
EXTENDS Integers, Sequences, FiniteSets, TLC

VARIABLES
    pc,      \* where the call in progress stands
    args,    \* the arguments of the call of _Step
    self,    \* the object __init__ is filling in, None outside __init__
    result,  \* what the call of _Step gave its caller: an object or an exception
    other,   \* a step built earlier and kept by the caller, with its arguments
    ret      \* the last call of a helper or of __eq__: its argument and outcome

vars == <<pc, args, self, result, other, ret>>

(***************************************************************************)
(* Bounds of the model.                                                    *)
(***************************************************************************)
\* numbers 0..MaxNum are written in front of the unit suffixes
MaxNum == 2
\* a call of _Step supplies at most MaxSupplied of its optional arguments
MaxSupplied == 2

(***************************************************************************)
(* Python values.                                                          *)
(***************************************************************************)
None == [t |-> "None"]
PyInt(i) == [t |-> "int", i |-> i]
PyStr(s) == [t |-> "str", s |-> s]
PyList(xs) == [t |-> "list", xs |-> xs]
\* an array of the given shape; data is the sequence of its rows (2-D) or of
\* its elements (1-D)
NdArray(shape, data) == [t |-> "ndarray", shape |-> shape, data |-> data]
DateTime(Y, m, d, H, M, S) ==
    [t |-> "datetime", year |-> Y, month |-> m, day |-> d,
     hour |-> H, minute |-> M, second |-> S]

\* (recursions are functions of numbers: TLC evaluates the argument of a
\* function once, before the function is applied)
GCD[a \in Nat, b \in Nat] == IF b = 0 THEN a ELSE GCD[b, a % b]

Abs(i) == IF i < 0 THEN -i ELSE i

\* the float n/d in lowest terms, d > 0
PyFloat(n, d) ==
    LET g == GCD[Abs(n), Abs(d)]
        s == IF d < 0 THEN -1 ELSE 1
    IN  [t |-> "float", n |-> s * (n \div g), d |-> s * (d \div g)]

FMul(f, k) == PyFloat(f.n * k, f.d)
FDiv(f, k) == PyFloat(f.n, f.d * k)
FAddHundredths(f, h) == PyFloat(f.n * 100 + h * f.d, f.d * 100)
FInv(f) == PyFloat(f.d, f.n)

IsNumber(v) == v.t \in {"int", "float"}

Ok(v) == [ok |-> TRUE, val |-> v]
\* raise exc(msg); examples: the message ends with the catalog _examples;
\* arg: the raw input the message quotes, or None
Raise(exc, msg, examples, arg) ==
    [ok |-> FALSE, exc |-> exc, msg |-> msg, examples |-> examples, arg |-> arg]

(***************************************************************************)
(* Strings.                                                                *)
(***************************************************************************)
CharAt(s, i) == SubSeq(s, i, i)

\* the characters of the string cs, as a set
CharSet(cs) == {CharAt(cs, i) : i \in 1..Len(cs)}

\* the place (from 1) of each character of cs in cs
Places(cs) == [c \in CharSet(cs) |-> CHOOSE i \in 1..Len(cs) : CharAt(cs, i) = c]

DigitChars == "0123456789"
DigitPlaces == Places(DigitChars)
IsDigit(c) == c \in DOMAIN DigitPlaces
DigitVal(c) == DigitPlaces[c] - 1

\* the places of s that hold a character outside chars
Outside(s, chars) == {i \in 1..Len(s) : CharAt(s, i) \notin chars}

\* s.lstrip(chars), chars given as a set of characters
lstrip(s, chars) ==
    LET keep == Outside(s, chars)
    IN  IF keep = {} THEN ""
        ELSE SubSeq(s, CHOOSE i \in keep : \A j \in keep : i <= j, Len(s))

rstrip(s, chars) ==
    LET keep == Outside(s, chars)
    IN  IF keep = {} THEN ""
        ELSE SubSeq(s, 1, CHOOSE i \in keep : \A j \in keep : j <= i)

\* s[: -k], k = len(suffix): Python reads s[: -0] as s[: 0], the empty string
SliceToMinus(s, k) == IF k = 0 THEN "" ELSE SubSeq(s, 1, Len(s) - k)

\* s[k:] with k counted from 0
SliceFrom(s, k) == SubSeq(s, k + 1, Len(s))

startswith(s, p) == Len(s) >= Len(p) /\ SubSeq(s, 1, Len(p)) = p

\* str(i) for an int
NatToStr[i \in Nat] ==
    IF i < 10 THEN CharAt(DigitChars, i + 1)
    ELSE NatToStr[i \div 10] \o CharAt(DigitChars, (i % 10) + 1)

IntToStr(i) == IF i < 0 THEN "-" \o NatToStr[-i] ELSE NatToStr[i]

\* the value of a string of digits read as a decimal number
DigitsVal(s) ==
    LET upto[k \in 0..Len(s)] ==
            IF k = 0 THEN 0 ELSE 10 * upto[k - 1] + DigitVal(CharAt(s, k))
    IN  upto[Len(s)]

Pow10[k \in Nat] == IF k = 0 THEN 1 ELSE 10 * Pow10[k - 1]

AllDigits(s) == \A i \in 1..Len(s) : IsDigit(CharAt(s, i))

\* classes of digits
D09 == CharSet("0123456789")
D19 == CharSet("123456789")
D01 == {"0", "1"}
D12 == {"1", "2"}
D05 == CharSet("012345")

\* float(s) on the literals the stripped prefixes can hold: optional blanks
\* around an optional sign and digits with at most one point.  (Exponents,
\* inf, nan and underscores, which float() also reads, are outside the
\* inputs of the model.)
FloatError(s) ==
    Raise("ValueError", "could not convert string to float", FALSE, PyStr(s))

\* the number with integer digits ip and fraction digits fp
FloatOfDigits(ip, fp, neg, s) ==
    IF AllDigits(ip) /\ AllDigits(fp) /\ Len(ip) + Len(fp) > 0
    THEN Ok(PyFloat((IF neg THEN -1 ELSE 1)
                      * (DigitsVal(ip) * Pow10[Len(fp)] + DigitsVal(fp)),
                    Pow10[Len(fp)]))
    ELSE FloatError(s)

\* u: the literal without blanks and sign; dots: the places of its points
FloatOfUnsigned(u, dots, neg, s) ==
    IF dots = {} THEN FloatOfDigits(u, "", neg, s)
    ELSE IF Cardinality(dots) > 1 THEN FloatError(s)
    ELSE FloatOfDigits(SubSeq(u, 1, (CHOOSE i \in dots : TRUE) - 1),
                       SubSeq(u, (CHOOSE i \in dots : TRUE) + 1, Len(u)), neg, s)

\* the places of the points of u
Dots(u) == {i \in 1..Len(u) : CharAt(u, i) = "."}

\* b: the literal without the blanks around it
FloatOfStripped(b, s) ==
    IF Len(b) > 0 /\ CharAt(b, 1) \in {"-", "+"}
    THEN FloatOfUnsigned(SliceFrom(b, 1), Dots(SliceFrom(b, 1)),
                         CharAt(b, 1) = "-", s)
    ELSE FloatOfUnsigned(b, Dots(b), FALSE, s)

float(s) == FloatOfStripped(rstrip(lstrip(s, {" "}), {" "}), s)

(***************************************************************************)
(* The unit converters.                                                    *)
(***************************************************************************)
NumberChars == CharSet("0123456789.- ")

\* the unit lists of the three branches
units_seconds == {"second", "seconds", "s", "sec"}
units_minutes == {"minute", "minutes", "m", "min"}
units_hours_short == {"hour", "hours", "h"}
units_hours == {"hour", "hours", "h", "hr"}

\* float(time) * k
Scaled(f, k) == IF f.ok THEN Ok(FMul(f.val, k)) ELSE f

\* the branches on units, for the string s that ends with units
TimeInUnits(s, units) ==
    IF units \in units_seconds
    THEN Scaled(float(SliceToMinus(s, Len(units))), 1)
    ELSE IF units \in units_minutes
    THEN Scaled(float(SliceToMinus(s, Len(units))), 60)
    ELSE IF units \in units_hours
    THEN Scaled(float(SliceToMinus(s, Len(units))), 3600)
    ELSE Raise("ValueError",
               "time units must be 'seconds', 'minutes' or 'hours'. ",
               TRUE, None)

_convert_time_to_seconds(time_and_units) ==
    IF IsNumber(time_and_units) \/ time_and_units = None
    THEN Ok(time_and_units)
    ELSE IF time_and_units.t # "str"
    THEN Raise("AttributeError", "object has no attribute 'lstrip'", FALSE, None)
    ELSE TimeInUnits(time_and_units.s, lstrip(time_and_units.s, NumberChars))

\* float(temperature) + 273.15
Shifted(f, h) == IF f.ok THEN Ok(FAddHundredths(f.val, h)) ELSE f

TemperatureInUnits(s, units) ==
    IF units \in {"K"}
    THEN Scaled(float(SliceToMinus(s, Len(units))), 1)
    ELSE IF units \in {"oC"}
    THEN Shifted(float(SliceToMinus(s, Len(units))), 27315)
    ELSE Raise("ValueError", "temperature units must be 'K' or 'oC'. ",
               FALSE, None)

_convert_temperature_to_kelvin(temperature_and_units) ==
    IF IsNumber(temperature_and_units) \/ temperature_and_units = None
    THEN Ok(temperature_and_units)
    ELSE IF temperature_and_units.t # "str"
    THEN Raise("AttributeError", "object has no attribute 'lstrip'", FALSE, None)
    ELSE TemperatureInUnits(temperature_and_units.s,
                            lstrip(temperature_and_units.s, NumberChars))

units_to_type_no_ohm(unit) ==
    CASE unit = "C" -> "C-rate"
      [] unit = "A" -> "current"
      [] unit = "V" -> "voltage"
      [] unit = "W" -> "power"
      [] OTHER -> ""

\* units_to_type: the type of a unit, or "" for a KeyError
units_to_type(unit) ==
    CASE unit = "C" -> "C-rate"
      [] unit = "A" -> "current"
      [] unit = "V" -> "voltage"
      [] unit = "W" -> "power"
      [] unit = "Ohm" -> "resistance"
      [] OTHER -> ""

\* the lookup of the unit and the tuple (typ, value)
TypeOfUnit(unit, value) ==
    IF units_to_type(unit) = ""
    THEN Raise("ValueError", "units must be 'A', 'V', 'W', 'Ohm', or 'C'. ",
               TRUE, None)
    ELSE Ok(<<units_to_type(unit), value>>)

\* value_string[2:], the divisor of a C-rate
CRateDivisor_from_1(s) == SliceFrom(s, 1)
CRateDivisor(s) == SliceFrom(s, 2)

\* the special case: 1 / float(value_string[2:])
CRate(f) ==
    IF ~f.ok THEN f
    ELSE IF f.val.n = 0
    THEN Raise("ZeroDivisionError", "float division by zero", FALSE, None)
    ELSE TypeOfUnit("C", FInv(f.val))

\* all other cases: the value f in front of unit, with the milli- prefix caught
Quantity(f, unit) ==
    IF ~f.ok THEN f
    ELSE IF startswith(unit, "m")
    THEN TypeOfUnit(SliceFrom(unit, 1), FDiv(f.val, 1000))
    ELSE TypeOfUnit(unit, f.val)

QuantityInUnit(s, unit) == Quantity(float(SliceToMinus(s, Len(unit))), unit)

\* the tuple (typ, value) of an electrical instruction
_convert_electric(value_string) ==
    IF value_string.t # "str"
    THEN Raise("TypeError", "object is not subscriptable", FALSE, None)
    ELSE IF Len(value_string.s) = 0
    THEN Raise("IndexError", "string index out of range", FALSE, None)
    ELSE IF CharAt(value_string.s, 1) = "C"
    THEN CRate(float(CRateDivisor(value_string.s)))
    ELSE QuantityInUnit(value_string.s, lstrip(value_string.s, NumberChars))

(***************************************************************************)
(* Timestamps.  datetime.strptime turns the format into a regular          *)
(* expression (a blank is \s+, a directive is an ordered alternation, any  *)
(* other character is itself, case ignored), matches it at the start of    *)
(* the string and refuses data left over.  The alternatives of a directive *)
(* are listed longest first and a number is always followed by a           *)
(* non-digit or the end of the format, so the first alternative that       *)
(* matches is the match the expression ends with.                          *)
(***************************************************************************)
datetime_formats_three ==
    <<"Day %j %H:%M:%S", "Day %j %H:%M", "%Y-%m-%d %H:%M:%S">>

datetime_formats ==
    <<"Day %j %H:%M:%S", "Day %j %H:%M", "%Y-%m-%d %H:%M:%S", "%Y-%m-%d %H:%M">>


\* the alternatives of each directive, each a sequence of character classes
Directives ==
    [Y |-> << <<D09, D09, D09, D09>> >>,
     m |-> << <<{"1"}, CharSet("012")>>, <<{"0"}, D19>>, <<D19>> >>,
     d |-> << <<{"3"}, D01>>, <<D12, D09>>, <<{"0"}, D19>>, <<D19>>,
              <<{" "}, D19>> >>,
     H |-> << <<{"2"}, CharSet("0123")>>, <<D01, D09>>, <<D09>> >>,
     M |-> << <<D05, D09>>, <<D09>> >>,
     S |-> << <<{"6"}, D01>>, <<D05, D09>>, <<D09>> >>,
     j |-> << <<{"3"}, {"6"}, CharSet("0123456")>>, <<{"3"}, D05, D09>>,
              <<D12, D09, D09>>, <<{"0"}, D19, D09>>, <<{"0"}, {"0"}, D19>>,
              <<D19, D09>>, <<{"0"}, D19>>, <<D19>> >>]

AltMatches(alt, s, i) ==
    /\ i + Len(alt) - 1 <= Len(s)
    /\ \A k \in 1..Len(alt) : CharAt(s, i + k - 1) \in alt[k]

\* the length of the first alternative of directive d that matches s at i,
\* or 0
DirectiveLen(d, s, i) ==
    LET alts == Directives[d]
        hits == {a \in 1..Len(alts) : AltMatches(alts[a], s, i)}
    IN  IF hits = {} THEN 0
        ELSE Len(alts[CHOOSE a \in hits : \A b \in hits : a <= b])

UpperChars == "ABCDEFGHIJKLMNOPQRSTUVWXYZ"
LowerChars == "abcdefghijklmnopqrstuvwxyz"
UpperPlaces == Places(UpperChars)

Lower(c) ==
    IF c \in DOMAIN UpperPlaces THEN CharAt(LowerChars, UpperPlaces[c]) ELSE c

\* the number of blanks of s from place i on
BlankRun(s, i) ==
    LET stop == {j \in i..Len(s) : CharAt(s, j) # " "}
    IN  IF stop = {} THEN Len(s) + 1 - i
        ELSE (CHOOSE j \in stop : \A k \in stop : j <= k) - i

NoMatch == [ok |-> FALSE]

FieldSets == [Y : Int, m : Int, d : Int, H : Int, M : Int, S : Int, j : Int]

\* match format fmt against s: from[i, k, f] continues at place i of s and
\* place k of fmt, f holding the fields read so far
MatchFormat(s, fmt, f0) ==
    LET from[i \in Nat, k \in Nat, f \in FieldSets] ==
            IF k > Len(fmt)
            THEN IF i > Len(s) THEN [ok |-> TRUE, f |-> f] ELSE NoMatch
            ELSE IF CharAt(fmt, k) = "%"
            THEN IF DirectiveLen(CharAt(fmt, k + 1), s, i) = 0 THEN NoMatch
                 ELSE from[i + DirectiveLen(CharAt(fmt, k + 1), s, i), k + 2,
                           [f EXCEPT ![CharAt(fmt, k + 1)] =
                               DigitsVal(lstrip(
                                   SubSeq(s, i, i + DirectiveLen(CharAt(fmt, k + 1), s, i) - 1),
                                   {" "}))]]
            ELSE IF CharAt(fmt, k) = " "
            THEN IF BlankRun(s, i) = 0 THEN NoMatch
                 ELSE from[i + BlankRun(s, i), k + 1, f]
            ELSE IF i <= Len(s) /\ Lower(CharAt(s, i)) = Lower(CharAt(fmt, k))
            THEN from[i + 1, k + 1, f]
            ELSE NoMatch
    IN  from[1, 1, f0]

IsLeap(y) == (y % 4 = 0 /\ y % 100 # 0) \/ y % 400 = 0

DaysInMonth(y, m) ==
    IF m = 2 THEN (IF IsLeap(y) THEN 29 ELSE 28)
    ELSE IF m \in {4, 6, 9, 11} THEN 30 ELSE 31

\* the date of day j (from 1) of year y, counted on from month m; the day
\* after the last day of a year is the first of the next
FromJulian[y \in Nat, m \in Nat, j \in Nat] ==
    IF j <= DaysInMonth(y, m) THEN <<y, m, j>>
    ELSE IF m = 12 THEN FromJulian[y + 1, 1, j - 31]
    ELSE FromJulian[y, m + 1, j - DaysInMonth(y, m)]

\* the fields a format leaves unset: 1 January 1900, midnight; j = -1: no %j
DefaultFields == [Y |-> 1900, m |-> 1, d |-> 1, H |-> 0, M |-> 0, S |-> 0, j |-> -1]

\* the date the fields give: year, month and day, or the day %j of the year
DateOfFields(f) ==
    IF f.j = -1 THEN <<f.Y, f.m, f.d>> ELSE FromJulian[f.Y, 1, f.j]

\* datetime(...) of the fields read, which refuses a year 0, a day the month
\* does not have and a second above 59
DateTimeOfMatch(r) ==
    IF ~r.ok THEN NoMatch
    ELSE IF \/ r.f.Y < 1
            \/ (r.f.j = -1 /\ r.f.d > DaysInMonth(r.f.Y, r.f.m))
            \/ r.f.S > 59
    THEN NoMatch
    ELSE [ok |-> TRUE,
          val |-> DateTime(DateOfFields(r.f)[1], DateOfFields(r.f)[2],
                           DateOfFields(r.f)[3], r.f.H, r.f.M, r.f.S)]

\* datetime.strptime(s, fmt): a datetime, or NoMatch for its ValueError
strptime(s, fmt) == DateTimeOfMatch(MatchFormat(s, fmt, DefaultFields))

\* the loop over datetime_formats from format k on; r is what format k gave
RECURSIVE TryFormats(_, _)
ReturnFirst(r, timestamp, k) ==
    IF r.ok THEN Ok(r.val) ELSE TryFormats(timestamp, k + 1)

TryFormats(timestamp, k) ==
    IF k > Len(datetime_formats)
    THEN Raise("ValueError",
               "The timestamp [] does not match any of the supported formats.",
               FALSE, timestamp)
    ELSE ReturnFirst(strptime(timestamp.s, datetime_formats[k]), timestamp, k)

_process_timestamp(timestamp) ==
    IF timestamp = None \/ timestamp.t = "datetime"
    THEN Ok(timestamp)
    ELSE IF timestamp.t # "str"
    THEN Raise("TypeError", "strptime() argument 1 must be str", FALSE, None)
    ELSE TryFormats(timestamp, 1)

(***************************************************************************)
(* Textual forms: str(v) as an f-string renders it.  The strings of the    *)
(* model hold no quote or backslash and the arrays hold one-digit          *)
(* non-negative integers, so repr and numpy's column padding add nothing.  *)
(***************************************************************************)
Pad2(i) == IF i < 10 THEN "0" \o NatToStr[i] ELSE NatToStr[i]
Pad4(i) ==
    IF i < 10 THEN "000" \o NatToStr[i]
    ELSE IF i < 100 THEN "00" \o NatToStr[i]
    ELSE IF i < 1000 THEN "0" \o NatToStr[i] ELSE NatToStr[i]

\* sep.join(xs) for a sequence of strings
Join(xs, sep) ==
    LET upto[k \in 0..Len(xs)] ==
            IF k = 0 THEN ""
            ELSE IF k = 1 THEN xs[1]
            ELSE upto[k - 1] \o sep \o xs[k]
    IN  upto[Len(xs)]

\* repr of a list element
PyRepr(v) == IF v.t = "str" THEN "'" \o v.s \o "'" ELSE IntToStr(v.i)

RowStr(row) == "[" \o Join([i \in 1..Len(row) |-> IntToStr(row[i])], " ") \o "]"

PyToStr(v) ==
    CASE v.t = "None" -> "None"
      [] v.t = "int" -> IntToStr(v.i)
      [] v.t = "str" -> v.s
      [] v.t = "list" -> "[" \o Join([i \in 1..Len(v.xs) |-> PyRepr(v.xs[i])], ", ") \o "]"
      [] v.t = "ndarray" ->
            IF Len(v.shape) = 1 THEN RowStr(v.data)
            ELSE "[" \o Join([i \in 1..Len(v.data) |-> RowStr(v.data[i])], "\n ")
                 \o "]"
      [] v.t = "datetime" ->
            Pad4(v.year) \o "-" \o Pad2(v.month) \o "-" \o Pad2(v.day) \o " "
            \o Pad2(v.hour) \o ":" \o Pad2(v.minute) \o ":" \o Pad2(v.second)

\* bool(v), as an if statement reads v
Truthy(v) ==
    CASE v.t = "None" -> FALSE
      [] v.t = "int" -> v.i # 0
      [] v.t = "float" -> v.n # 0
      [] v.t = "str" -> Len(v.s) > 0
      [] v.t = "list" -> Len(v.xs) > 0
      [] OTHER -> TRUE

(***************************************************************************)
(* _Step.__init__, statement by statement.  Each block of statements is an *)
(* operator from the object so far and the arguments a to the object after *)
(* it, or to the exception it raises.                                      *)
(***************************************************************************)
\* an attribute that has not been assigned
Unset == [t |-> "unset"]

PyBool(b) == [t |-> "bool", b |-> b]

\* the object __new__ hands to __init__
NewStep ==
    [t |-> "_Step", type |-> Unset, args |-> Unset, is_drive_cycle |-> Unset,
     value |-> Unset, duration |-> Unset, period |-> Unset,
     description |-> Unset, termination |-> Unset, temperature |-> Unset,
     tags |-> Unset, timestamp |-> Unset, next_timestamp |-> Unset,
     end_timestamp |-> Unset]

StepFields ==
    {"type", "args", "is_drive_cycle", "value", "duration", "period",
     "description", "termination", "temperature", "tags", "timestamp",
     "next_timestamp", "end_timestamp"}

\* ", name=value" when the argument is true as a condition
Optional(name, v) ==
    IF Truthy(v) THEN ", " \o name \o "=" \o PyToStr(v) ELSE ""

\* the args recorded for repr
RecordArgs(a) ==
    a.typ.s \o ", " \o PyToStr(a.value)
    \o Optional("duration", a.duration)
    \o Optional("termination", a.termination)
    \o Optional("period", a.period)
    \o Optional("temperature", a.temperature)
    \o Optional("tags", a.tags)
    \o Optional("timestamp", a.timestamp)
    \o Optional("description", a.description)

InitTrace(s, a) ==
    Ok([s EXCEPT !.type = a.typ, !.args = PyStr(RecordArgs(a))])

\* pybamm.Interpolant(t, y, pybamm.t - pybamm.InputParameter("start time"))
Interpolant(t, y) == [t |-> "Interpolant", x |-> t, y |-> y]

Column(rows, c) == [i \in 1..Len(rows) |-> rows[i][c]]

SeqMax(t) == CHOOSE m \in {t[i] : i \in 1..Len(t)} : \A i \in 1..Len(t) : t[i] <= m
SeqMin(t) == CHOOSE m \in {t[i] : i \in 1..Len(t)} : \A i \in 1..Len(t) : m <= t[i]
\* np.diff(t)
Diff(t) == [i \in 1..(Len(t) - 1) |-> t[i + 1] - t[i]]

EmptyReduction ==
    Raise("ValueError", "zero-size array to reduction operation", FALSE, None)

\* np.diff(t).min()
DriveCyclePeriod_of_times(t) == SeqMin(t)
DriveCyclePeriod(t) == SeqMin(Diff(t))

\* the else branch: d and p are the converted duration and period
AssignTimes(s, value, d, p) ==
    IF ~d.ok THEN d
    ELSE IF ~p.ok THEN p
    ELSE Ok([s EXCEPT !.is_drive_cycle = PyBool(FALSE), !.value = value,
                      !.duration = d.val, !.period = p.val])

\* the drive cycle with columns t and y
AssignDriveCycle(s, t, y) ==
    IF Len(t) = 0 \/ Len(Diff(t)) = 0 THEN EmptyReduction
    ELSE Ok([s EXCEPT !.is_drive_cycle = PyBool(TRUE),
                      !.value = Interpolant(t, y),
                      !.duration = PyInt(SeqMax(t)),
                      !.period = PyInt(DriveCyclePeriod(t))])

InitDriveCycle(s, a) ==
    IF a.value.t = "ndarray"
    THEN IF Len(a.value.shape) # 2 \/ a.value.shape[2] # 2
         THEN Raise("ValueError", "Drive cycle must be a 2-column array",
                    FALSE, None)
         ELSE AssignDriveCycle(s, Column(a.value.data, 1), Column(a.value.data, 2))
    ELSE AssignTimes(s, a.value, _convert_time_to_seconds(a.duration),
                     _convert_time_to_seconds(a.period))

\* the loop over termination from entry k on; acc is self.termination so
\* far and r what _convert_electric gave for entry k
RECURSIVE ConvertTerminations(_, _, _)
AppendTermination(r, termination, k, acc) ==
    IF ~r.ok THEN r
    ELSE ConvertTerminations(termination, k + 1,
             Append(acc, [type |-> r.val[1], value |-> r.val[2]]))

ConvertTerminations(termination, k, acc) ==
    IF k > Len(termination) THEN Ok(PyList(acc))
    ELSE AppendTermination(_convert_electric(termination[k]), termination, k, acc)

AssignTermination(s, a, r) ==
    IF ~r.ok THEN r
    ELSE Ok([s EXCEPT !.description = a.description, !.termination = r.val])

InitTermination(s, a) ==
    AssignTermination(s, a,
        ConvertTerminations(IF a.termination = None THEN <<>>
                            ELSE IF a.termination.t # "list" THEN <<a.termination>>
                            ELSE a.termination.xs,
                            1, <<>>))

\* self.temperature = r, and the variant that swallows the error
AssignTemperature_lenient(s, r) ==
    IF ~r.ok THEN Ok(s) ELSE Ok([s EXCEPT !.temperature = r.val])

AssignTemperature(s, r) ==
    IF ~r.ok THEN r ELSE Ok([s EXCEPT !.temperature = r.val])

InitTemperature(s, a) ==
    AssignTemperature(s, _convert_temperature_to_kelvin(a.temperature))

InitTags_unwrapped(s, a) ==
    Ok([s EXCEPT !.tags = IF a.tags = None THEN PyList(<<>>) ELSE a.tags])

InitTags(s, a) ==
    Ok([s EXCEPT !.tags = IF a.tags = None THEN PyList(<<>>)
                          ELSE IF a.tags.t = "str" THEN PyList(<<a.tags>>)
                          ELSE a.tags])

AssignTimestamp(s, r) ==
    IF ~r.ok THEN r
    ELSE Ok([s EXCEPT !.timestamp = r.val, !.next_timestamp = None,
                      !.end_timestamp = None])

InitTimestamp(s, a) == AssignTimestamp(s, _process_timestamp(a.timestamp))

__repr__(s) == "_Step(" \o s.args.s \o ")"

__str__(s) == IF s.description # None THEN s.description.s ELSE __repr__(s)

\* the projection of to_dict
to_dict(s) ==
    [type |-> s.type, value |-> s.value, duration |-> s.duration,
     termination |-> s.termination, period |-> s.period,
     temperature |-> s.temperature, tags |-> s.tags, timestamp |-> s.timestamp,
     description |-> s.description]

__eq___by_fields(s, o) == o.t = "_Step" /\ to_dict(s) = to_dict(o)

__eq__(s, o) == o.t = "_Step" /\ __repr__(s) = __repr__(o)

\* hash(str): some fixed function of the characters (CPython's is SipHash
\* under a per-process key); here a weighted sum of the characters' places
\* in a table (0 for a character outside it), added up by halves
PrintableChars ==
    " ',-./0123456789:=ABCDEFGHIJKLMNOPQRSTUVWXYZ[]_abcdefghijklmnopqrstuvwxyz"

PrintablePlaces == Places(PrintableChars)

Ord(c) == IF c \in DOMAIN PrintablePlaces THEN PrintablePlaces[c] ELSE 0

PyHash(s) ==
    LET sum[lo \in 1..(Len(s) + 1), hi \in 0..Len(s)] ==
            IF lo > hi THEN 0
            ELSE IF lo = hi THEN (Ord(CharAt(s, lo)) * (31 + lo)) % 65521
            ELSE (sum[lo, (lo + hi) \div 2] + sum[((lo + hi) \div 2) + 1, hi]) % 65521
    IN  sum[1, Len(s)]

__hash__(s) == PyHash(__repr__(s))

(***************************************************************************)
(* Inputs.                                                                 *)
(***************************************************************************)
\* numeric literals with the number each one writes, in halves: optional
\* sign or blank before the digits, optional blank or fraction after them
NumLits ==
    {[text |-> pre \o IntToStr(n) \o post,
      val |-> PyFloat((IF pre = "-" THEN -1 ELSE 1)
                        * (2 * n + (IF post = ".5" THEN 1 ELSE 0)), 2)] :
        n \in 0..MaxNum, pre \in {"", " ", "-"}, post \in {"", " ", ".5"}}

SecondUnits == {"second", "seconds", "s", "sec"}
MinuteUnits == {"minute", "minutes", "m", "min"}
HourUnits == {"hour", "hours", "h", "hr"}
OtherTimeUnits == {"", "S", "ms", "secs", "day", "Hour"}
TimeUnits == SecondUnits \cup MinuteUnits \cup HourUnits \cup OtherTimeUnits

TimeInputs ==
    {None} \cup {PyInt(n) : n \in 0..MaxNum} \cup {PyFloat(n, 2) : n \in 0..MaxNum}
    \cup {PyStr(l.text \o u) : l \in NumLits, u \in TimeUnits}

BaseUnits == {"A", "V", "W", "Ohm"}
MilliUnits == {"mA", "mV", "mW", "mOhm"}
OtherElectricUnits == {"C", "mC", "", "Q", "m", "mmA", "a", "kA", "C/2", "ohm"}
ElectricUnits == BaseUnits \cup MilliUnits \cup OtherElectricUnits

\* the character after the leading C, which the code does not read
CRateSeparators == {"/", "*"}

ElectricInputs ==
    {PyStr(l.text \o u) : l \in NumLits, u \in ElectricUnits}
    \cup {PyStr("C" \o c \o l.text) : c \in CRateSeparators, l \in NumLits}
    \cup {PyStr("C"), PyStr("C/"), PyStr("C/x"), PyStr("")}

DayTexts == {IntToStr(n) : n \in 0..MaxNum} \cup {"005", "60", "366", "367"}
ClockTexts == {"12:30", "1:2", "24:00", "12:30:00", "12:30:07", "12:30:60"}
DateTexts == {"2024-01-05", "2024-02-29", "2023-02-29", "2024-1- 5", "0000-01-01"}

TimestampInputs ==
    {None, DateTime(2024, 1, 5, 12, 30, 0), DateTime(1900, 1, 5, 0, 0, 0)}
    \cup {PyStr(p \o d \o " " \o c) : p \in {"Day ", "day ", "Day"},
                                     d \in DayTexts, c \in ClockTexts}
    \cup {PyStr(d \o b \o c) : d \in DateTexts, b \in {" ", "  ", "T"},
                              c \in ClockTexts}
    \cup {PyStr("not-a-date"), PyStr(""), PyStr("Day 5 12:30 "),
          PyStr(" 2024-01-05 12:30")}

\* arguments of _Step, well formed and malformed
Typs == {PyStr("current")}

GoodTimeColumns == {<<0, 1>>, <<1, 0>>, <<0, 1, 2, 5>>}
ShortTimeColumns == {<<>>, <<1>>}
\* the array with time column t and a second column of ones
TwoColumns(t) == NdArray(<<Len(t), 2>>, [i \in 1..Len(t) |-> <<t[i], 1>>])

GoodDriveCycles == {TwoColumns(t) : t \in GoodTimeColumns}
BadDriveCycles ==
    {TwoColumns(t) : t \in ShortTimeColumns}
    \cup {NdArray(<<2, 3>>, <<<<0, 1, 1>>, <<1, 1, 1>>>>), NdArray(<<2>>, <<0, 1>>)}
Values == {PyInt(1)} \cup GoodDriveCycles \cup BadDriveCycles

GoodDurations == {PyInt(0), PyStr("1 hour")}
GoodPeriods == {PyStr("1 minute")}
BadTimes == {PyStr("5 parsecs")}
GoodTerminations ==
    {PyList(<<>>), PyStr("2.5 V"), PyList(<<PyStr("C/2"), PyStr("4.1V")>>)}
BadTerminations == {PyStr("5Q"), PyList(<<PyStr("1 A"), PyStr("1C/2")>>)}
GoodTemperatures == {PyInt(0), PyStr("25oC")}
BadTemperatures == {PyStr("25F")}
Tags == {PyStr("tag"), PyList(<<PyStr("a"), PyStr("b")>>), PyList(<<>>)}
GoodTimestamps == {PyStr("Day 5 12:30:00"), DateTime(2024, 1, 5, 12, 30, 0)}
BadTimestamps == {PyStr("not-a-date")}
Descriptions == {PyStr(""), PyStr("Rest")}

OptionalNames ==
    <<"duration", "termination", "period", "temperature", "tags", "timestamp",
      "description">>

Supplied(a) == Cardinality({i \in 1..Len(OptionalNames) : a[OptionalNames[i]] # None})

CallArgs ==
    {a \in [typ : Typs, value : Values,
            duration : {None} \cup GoodDurations \cup BadTimes,
            termination : {None} \cup GoodTerminations \cup BadTerminations,
            period : {None} \cup GoodPeriods \cup BadTimes,
            temperature : {None} \cup GoodTemperatures \cup BadTemperatures,
            tags : {None} \cup Tags,
            timestamp : {None} \cup GoodTimestamps \cup BadTimestamps,
            description : {None} \cup Descriptions] :
        Supplied(a) <= MaxSupplied}

\* the arguments of the steps a caller builds to compare them
PairArgs ==
    [typ : Typs, value : {PyInt(1)},
     duration : {None} \cup GoodDurations,
     termination : {None}, period : {None}, temperature : {None},
     tags : {None, PyStr("a"), PyList(<<PyStr("a")>>), PyStr("a, description=d")},
     timestamp : {None},
     description : {None, PyStr(""), PyStr("d"), PyStr("e")}]

(***************************************************************************)
(* The calls.                                                              *)
(***************************************************************************)
NoCall == [fn |-> "", arg |-> None, out |-> None]

Init ==
    /\ pc = "idle"
    /\ args = None
    /\ self = None
    /\ result = None
    /\ other = None
    /\ ret = NoCall

\* _Step(...) is called: __new__ makes the object, __init__ starts
Invoke(a) ==
    /\ pc = "idle"
    /\ pc' = "trace"
    /\ args' = a
    /\ self' = NewStep
    /\ result' = None
    /\ ret' = NoCall
    /\ UNCHANGED other

Call == \E a \in CallArgs : Invoke(a)

CallPair == \E a \in PairArgs : Invoke(a)

\* one block of __init__, r being what it gives: it assigns its attributes,
\* or it raises, and then the caller holds the exception and no object
Block(p, next, r) ==
    /\ pc = p
    /\ IF r.ok
       THEN /\ self' = r.val
            /\ pc' = next
            /\ UNCHANGED result
       ELSE /\ self' = None
            /\ pc' = "done"
            /\ result' = r
    /\ UNCHANGED <<args, other, ret>>

RecordTrace == Block("trace", "drive_cycle", InitTrace(self, args))
DriveCycle == Block("drive_cycle", "termination", InitDriveCycle(self, args))
Termination == Block("termination", "temperature", InitTermination(self, args))
Temperature == Block("temperature", "tags", InitTemperature(self, args))
TagsBlock == Block("tags", "timestamp", InitTags(self, args))
Timestamp == Block("timestamp", "return", InitTimestamp(self, args))

\* __init__ returns and the caller receives the object
Return ==
    /\ pc = "return"
    /\ result' = Ok(self)
    /\ self' = None
    /\ pc' = "done"
    /\ UNCHANGED <<args, other, ret>>

\* a call of one of the helpers on its own
Helper(fn, x, out) ==
    /\ pc = "idle"
    /\ ret' = [fn |-> fn, arg |-> x, out |-> out]
    /\ pc' = "done"
    /\ UNCHANGED <<args, self, result, other>>

ConvertTime ==
    \E x \in TimeInputs :
        Helper("_convert_time_to_seconds", x, _convert_time_to_seconds(x))

ConvertElectric ==
    \E x \in ElectricInputs : Helper("_convert_electric", x, _convert_electric(x))

ProcessTimestamp ==
    \E x \in TimestampInputs :
        Helper("_process_timestamp", x, _process_timestamp(x))

\* the caller keeps the step it received and goes on
Keep ==
    /\ pc = "done"
    /\ result # None
    /\ result.ok
    /\ other' = [obj |-> result.val, args |-> args]
    /\ pc' = "idle"
    /\ args' = None
    /\ result' = None
    /\ ret' = NoCall
    /\ UNCHANGED self

\* what the step just received may be compared with: the step kept
\* earlier, itself, the string of its repr, None
Comparands ==
    (IF other = None THEN <<>> ELSE <<other.obj>>)
    \o <<result.val, PyStr(__repr__(result.val)), None>>

\* a == b and the two hashes, for the step a just received
Compare ==
    /\ pc = "done"
    /\ result # None
    /\ result.ok
    /\ \E i \in 1..Len(Comparands) :
         LET b == Comparands[i]
         IN  ret' = [fn |-> "__eq__", arg |-> b, out |-> __eq__(result.val, b),
                     hash |-> __hash__(result.val),
                     arg_hash |-> IF b.t = "_Step" THEN __hash__(b) ELSE -1]
    /\ UNCHANGED <<pc, args, self, result, other>>

Construct ==
    \/ RecordTrace
    \/ DriveCycle
    \/ Termination
    \/ Temperature
    \/ TagsBlock
    \/ Timestamp
    \/ Return

Next ==
    \/ Call
    \/ Construct
    \/ ConvertTime
    \/ ConvertElectric
    \/ ProcessTimestamp

Spec == Init /\ [][Next]_vars

NextPair ==
    \/ CallPair
    \/ Construct
    \/ Keep
    \/ Compare

SpecPair == Init /\ [][NextPair]_vars

(***************************************************************************)
(* Properties.  The expected results are written out here from the         *)
(* documented behaviour, apart from the operators above.                   *)
(***************************************************************************)
\* the kinds of failure: a unit that is not recognised (ValueError with the
\* catalog of examples), a number that float() refuses, a timestamp no
\* format matches (ValueError quoting the input x)
UnitParseError(r) == ~r.ok /\ r.exc = "ValueError" /\ r.examples

NumericParseError(r) ==
    ~r.ok /\ r.exc = "ValueError" /\ ~r.examples
    /\ r.msg = "could not convert string to float"

TimestampParseError(r, x) == ~r.ok /\ r.exc = "ValueError" /\ r.arg = x

\* the step the caller received has every attribute assigned
Complete(step) == \A f \in StepFields : step[f] # Unset

Returned == pc = "done" /\ result # None /\ result.ok
Raised == pc = "done" /\ result # None /\ ~result.ok

\* the argument combinations with a malformed argument, as the claim counts
\* them and as the constructor reads them: the duration and period of a
\* drive cycle are not read
AnyMalformed(a) ==
    \/ a.value \in BadDriveCycles
    \/ a.duration \in BadTimes
    \/ a.period \in BadTimes
    \/ a.termination \in BadTerminations
    \/ a.temperature \in BadTemperatures
    \/ a.timestamp \in BadTimestamps

ReadMalformed(a) ==
    \/ a.value \in BadDriveCycles
    \/ (a.value.t # "ndarray" /\ (a.duration \in BadTimes \/ a.period \in BadTimes))
    \/ a.termination \in BadTerminations
    \/ a.temperature \in BadTemperatures
    \/ a.timestamp \in BadTimestamps

\* C1 as stated: a call with any malformed argument among value, duration,
\* period, termination, temperature and timestamp raises and yields no
\* step; every other call returns a step with every attribute assigned.
C1_AnyMalformedRaises ==
    result # None =>
        /\ result.ok <=> ~AnyMalformed(args)
        /\ result.ok => Complete(result.val)

\* C1, amended: construction is all or nothing.  The call raises exactly
\* when the value is a malformed drive cycle, or a termination entry, the
\* temperature or the timestamp is malformed, or the value is not a drive
\* cycle and the duration or the period is malformed; otherwise it returns a
\* step with every attribute assigned.  The caller holds a result only once
\* the call is over, and then no half-built object is left.
C1_AllOrNothing ==
    result # None =>
        /\ pc = "done"
        /\ self = None
        /\ result.ok <=> ~ReadMalformed(args)
        /\ result.ok => Complete(result.val)

\* a call that raises in the fourth block, after nine attributes are set
C1_Witness ==
    /\ Raised
    /\ args.temperature \in BadTemperatures
    /\ ~ReadMalformed([args EXCEPT !.temperature = None])
    /\ self = None

\* C2: a == b exactly when the two traces (and so the two reprs) are the
\* same string; a step is never equal to a value that is not a step; equal
\* steps have equal hashes; steps built from the same arguments are equal.
C2_EqualIffSameRepr ==
    ret.fn = "__eq__" =>
        /\ ret.arg.t = "_Step" =>
              /\ ret.out <=> (result.val.args.s = ret.arg.args.s)
              /\ ret.out => ret.hash = ret.arg_hash
        /\ ret.arg.t # "_Step" => ~ret.out
        /\ (other # None /\ ret.arg = other.obj /\ other.args = args) => ret.out

\* two steps built from different arguments with the same trace are equal
C2_Witness ==
    /\ ret.fn = "__eq__"
    /\ other # None
    /\ ret.arg = other.obj
    /\ other.args.tags # args.tags
    /\ ret.out
    /\ ret.hash = ret.arg_hash

\* C3: two steps whose arguments differ in the description only are not
\* equal.
C3_DescriptionDistinguishes ==
    (/\ ret.fn = "__eq__"
     /\ other # None
     /\ ret.arg = other.obj
     /\ other.args.description # args.description
     /\ [other.args EXCEPT !.description = args.description] = args)
    => ~ret.out

\* the time column of a drive cycle
TimeColumn(value) == [i \in 1..Len(value.data) |-> value.data[i][1]]

\* what convert_time gives for the durations and periods of the calls
SecondsOf(v) ==
    CASE v = None -> None
      [] v = PyInt(0) -> PyInt(0)
      [] v = PyStr("1 hour") -> PyFloat(3600, 1)
      [] v = PyStr("1 minute") -> PyFloat(60, 1)

\* C4: for a drive cycle the duration is the largest time and the period
\* the smallest step between consecutive times, whatever duration and
\* period were supplied; otherwise they are the supplied duration and period
\* in seconds.
C4_DriveCycleOverrides ==
    Returned =>
        IF args.value.t = "ndarray"
        THEN /\ result.val.is_drive_cycle = PyBool(TRUE)
             /\ result.val.duration.t = "int"
             /\ \E i \in 1..Len(args.value.data) :
                    TimeColumn(args.value)[i] = result.val.duration.i
             /\ \A i \in 1..Len(args.value.data) :
                    TimeColumn(args.value)[i] <= result.val.duration.i
             /\ result.val.period.t = "int"
             /\ \E i \in 1..(Len(args.value.data) - 1) :
                    TimeColumn(args.value)[i + 1] - TimeColumn(args.value)[i]
                        = result.val.period.i
             /\ \A i \in 1..(Len(args.value.data) - 1) :
                    TimeColumn(args.value)[i + 1] - TimeColumn(args.value)[i]
                        >= result.val.period.i
        ELSE /\ result.val.is_drive_cycle = PyBool(FALSE)
             /\ result.val.value = args.value
             /\ result.val.duration = SecondsOf(args.duration)
             /\ result.val.period = SecondsOf(args.period)

\* a drive cycle with a malformed duration: built, duration 5 and period 1
C4_Witness ==
    /\ Returned
    /\ args.value = TwoColumns(<<0, 1, 2, 5>>)
    /\ args.duration \in BadTimes
    /\ result.val.duration = PyInt(5)
    /\ result.val.period = PyInt(1)

\* C5 as stated: convert_electric("1C/2") is ("C-rate", 0.5).
C5_OneCOverTwo ==
    (ret.fn = "_convert_electric" /\ ret.arg = PyStr("1C/2"))
    => ret.out = Ok(<<"C-rate", PyFloat(1, 2)>>)

\* C5, amended: a string that begins with C, then one character that is
\* not read, then a number d other than 0 gives ("C-rate", 1/d), and d = 0
\* fails with ZeroDivisionError; "C/2" gives ("C-rate", 0.5), and "1C/2",
\* which does not begin with C, fails with the ParseError of its unit C/2.
C5_CRateBranch ==
    ret.fn = "_convert_electric" =>
        /\ \A c \in CRateSeparators, l \in NumLits :
              ret.arg = PyStr("C" \o c \o l.text) =>
                  IF l.val.n = 0
                  THEN ~ret.out.ok /\ ret.out.exc = "ZeroDivisionError"
                  ELSE ret.out = Ok(<<"C-rate", PyFloat(l.val.d, l.val.n)>>)
        /\ ret.arg = PyStr("C/2") => ret.out = Ok(<<"C-rate", PyFloat(1, 2)>>)
        /\ ret.arg = PyStr("1C/2") => UnitParseError(ret.out)

C5_Witness ==
    /\ ret.fn = "_convert_electric"
    /\ ret.arg = PyStr("C/2")
    /\ ret.out = Ok(<<"C-rate", PyFloat(1, 2)>>)

\* the kind a unit suffix stands for
KindOfSuffix(u) ==
    CASE u \in {"A", "mA"} -> "current"
      [] u \in {"V", "mV"} -> "voltage"
      [] u \in {"W", "mW"} -> "power"
      [] u \in {"Ohm", "mOhm"} -> "resistance"
      [] u \in {"C", "mC"} -> "C-rate"

\* C6 as stated: for the number l in front of the suffix u, A, V, W and
\* Ohm give the kind with the number, mA, mV, mW and mOhm the kind with a
\* thousandth of it, and every other suffix fails with ParseError.
C6_OnlyEightSuffixes ==
    ret.fn = "_convert_electric" =>
        \A l \in NumLits, u \in ElectricUnits :
            ret.arg = PyStr(l.text \o u) =>
                IF u \in BaseUnits
                THEN ret.out = Ok(<<KindOfSuffix(u), l.val>>)
                ELSE IF u \in MilliUnits
                THEN ret.out = Ok(<<KindOfSuffix(u), FDiv(l.val, 1000)>>)
                ELSE UnitParseError(ret.out)

\* C6, amended: as stated for A, V, W, Ohm and their milli- forms; the
\* suffix C gives C-rate with the number and mC C-rate with a thousandth of
\* it; without a suffix the number itself is not read and the call fails
\* with the numeric parse error; every other suffix fails with ParseError
\* and there is no (kind, value) pair.
C6_SuffixDecides ==
    ret.fn = "_convert_electric" =>
        \A l \in NumLits, u \in ElectricUnits :
            ret.arg = PyStr(l.text \o u) =>
                IF u \in BaseUnits \cup {"C"}
                THEN ret.out = Ok(<<KindOfSuffix(u), l.val>>)
                ELSE IF u \in MilliUnits \cup {"mC"}
                THEN ret.out = Ok(<<KindOfSuffix(u), FDiv(l.val, 1000)>>)
                ELSE IF u = ""
                THEN NumericParseError(ret.out)
                ELSE UnitParseError(ret.out)

C6_Witness ==
    /\ ret.fn = "_convert_electric"
    /\ ret.arg = PyStr("2.5mOhm")
    /\ ret.out = Ok(<<"resistance", PyFloat(1, 400)>>)

\* the documented factor of a unit of time
FactorOf(u) ==
    CASE u \in SecondUnits -> 1
      [] u \in MinuteUnits -> 60
      [] u \in HourUnits -> 3600

\* C7: convert_time gives None for None and a number as it is; for the
\* number l (digits with an optional minus sign and point, blanks allowed
\* around it) in front of one of the twelve suffixes it gives the number
\* times the factor of the suffix; for any other suffix, none included, it
\* fails with ParseError.
C7_LinearInNumber ==
    ret.fn = "_convert_time_to_seconds" =>
        /\ (ret.arg = None \/ IsNumber(ret.arg)) => ret.out = Ok(ret.arg)
        /\ \A l \in NumLits, u \in TimeUnits :
              ret.arg = PyStr(l.text \o u) =>
                  IF u \in OtherTimeUnits
                  THEN UnitParseError(ret.out)
                  ELSE ret.out = Ok(PyFloat(l.val.n * FactorOf(u), l.val.d))

C7_Witness ==
    /\ ret.fn = "_convert_time_to_seconds"
    /\ ret.arg = PyStr("-1.5hr")
    /\ ret.out = Ok(PyFloat(-5400, 1))

\* the four formats in their order
FourFormats ==
    <<"Day %j %H:%M:%S", "Day %j %H:%M", "%Y-%m-%d %H:%M:%S", "%Y-%m-%d %H:%M">>

\* the formats that read s
Reading(s) == {k \in 1..4 : strptime(s, FourFormats[k]).ok}

\* C8: parse_timestamp gives None and a datetime back as they are; for a
\* string it gives what the first of the four formats that reads it gives,
\* and when none reads it, it fails with an error that quotes the string.
C8_FirstFormatWins ==
    ret.fn = "_process_timestamp" =>
        IF ret.arg = None \/ ret.arg.t = "datetime"
        THEN ret.out = Ok(ret.arg)
        ELSE /\ Reading(ret.arg.s) = {} => TimestampParseError(ret.out, ret.arg)
             /\ \A k \in Reading(ret.arg.s) :
                    (\A j \in Reading(ret.arg.s) : k <= j)
                    => ret.out = Ok(strptime(ret.arg.s, FourFormats[k]).val)
             /\ ret.arg = PyStr("Day 5 12:30:00")
                    => ret.out = Ok(DateTime(1900, 1, 5, 12, 30, 0))
             /\ ret.arg = PyStr("2024-01-05 12:30")
                    => ret.out = Ok(DateTime(2024, 1, 5, 12, 30, 0))
             /\ ret.arg = PyStr("not-a-date")
                    => TimestampParseError(ret.out, ret.arg)

\* a string only the fourth format reads
C8_Witness ==
    /\ ret.fn = "_process_timestamp"
    /\ ret.arg = PyStr("2024-02-29  1:2")
    /\ Reading(ret.arg.s) = {4}
    /\ ret.out = Ok(DateTime(2024, 2, 29, 1, 2, 0))

Entry(name, v) == IF v # None THEN ", " \o name \o "=" \o PyToStr(v) ELSE ""

\* the trace with an entry for exactly the optional arguments supplied
TraceOfSupplied(a) ==
    a.typ.s \o ", " \o PyToStr(a.value)
    \o Entry("duration", a.duration)
    \o Entry("termination", a.termination)
    \o Entry("period", a.period)
    \o Entry("temperature", a.temperature)
    \o Entry("tags", a.tags)
    \o Entry("timestamp", a.timestamp)
    \o Entry("description", a.description)

\* C10: the trace of a step is kind and value and then, in the order of
\* declaration, one entry for exactly the optional arguments whose supplied
\* value is not None.
C10_TraceOfSupplied ==
    Returned => result.val.args = PyStr(TraceOfSupplied(args))
====
